---- MODULE Spec2Model ----
(***************************************************************************)
(* Market-data acquisition and normalization pipeline of fabuslab/gaza:    *)
(*   core/api/kiwoom.py        KiwoomAPI      (credential, _api_request)   *)
(*   core/api/kiwoom_chart.py  KiwoomChartAPI (_fetch_chart_data)          *)
(*   core/modules/chart.py     ChartModule    (load_chart_data)            *)
(*   core/utils/indicators.py  calculate_indicators                        *)
(*                                                                         *)
(* A raw record list is kept run-length encoded: a run [ts, px, n] stands  *)
(* for n consecutive identical raw records with time string ts and price   *)
(* string px, so that lists of thousands of records stay representable.    *)
(* A token is identified with the issuance that produced it (its serial).  *)
(***************************************************************************)
EXTENDS Integers, Sequences, FiniteSets, TLC

\* ---------------------------------------------------------------- bounds
MaxIssue == 2        \* token issuances that succeed in one behaviour
MaxRecords == 2      \* records accumulated from pages of explicit records
MaxCount == 2        \* explicit requested counts 1..MaxCount
BulkRun == 2500      \* length of the long run a server page may carry
MaxLoads == 1        \* load requests in one behaviour
MaxRaw == 3          \* records of a list handed to the Series Normalizer
MaxPolls == 2        \* quote calls of the Poller

\* ------------------------------------------------------ program constants
MAX_REQUESTS == 10
MAX_TOTAL_DATA == 5000
DEFAULT_DATA_COUNT == 100

NoToken == 0         \* access_token None / ""
NoRc == -99          \* "return_code" absent from the body
NoCount == -1        \* count=None
BadTs == 0           \* a time string pd.to_datetime coerces to NaT
NaN == -1000         \* the NaN of pd.to_numeric(errors='coerce'): no number read here

AuthFailCodes == {3, 8005}
OtherErrorCode == 1
ReturnCodes == {NoRc, 0, OtherErrorCode} \cup AuthFailCodes

API_ID_DAILY_CHART == "ka10081"
API_ID_MINUTE_CHART == "ka10080"
API_ID_TICK_CHART == "ka10079"
ChartApiIds == {API_ID_DAILY_CHART, API_ID_MINUTE_CHART, API_ID_TICK_CHART}
STOCK_INFO_API_ID == "ka10095"
UnknownApiId == "ka00000"   \* an id _get_endpoint_by_api_id does not list

\* the time strings and price strings raw records carry: malformed or
\* well-formed, a larger number being a later instant
TimeStrings == {BadTs, 1, 2}
PriceStrings == {<<"a">>, <<"1">>}

Callers == {"main", "worker"}
Keys == {"", "k1"}
Periods == {"D", "5", "1T"}
\* no instrument selected, and the stock code of the chart window
NoStock == ""
StockCode == "005930"
BadPeriod == "X"

VARIABLES
  access_token,   \* KiwoomAPI.access_token (NoToken or an issuance serial)
  issued,         \* number of tokens the issuance endpoint has handed out
  call,           \* per thread: the frame of the _api_request in progress
  fetch,          \* the frame of _fetch_chart_data
  chart,          \* ChartModule fields
  emitted,        \* chart_updated emissions of the current load, in order
  poll,           \* the frame of _request_realtime_data and what it published
  cred            \* refresh_token, the persisted token file and the outcome
                  \* of revoke_token when it was the last to touch them

vars == <<access_token, issued, call, fetch, chart, emitted, poll, cred>>

\* --------------------------------------------------------- numeric strings
\* a numeric string is the sequence of its characters
Digits == {"0", "1", "2"}
DigitValue(c) == IF c = "0" THEN 0 ELSE IF c = "1" THEN 1 ELSE 2

RECURSIVE Decimal(_)
Decimal(s) ==
  IF s = <<>> THEN 0
  ELSE 10 * Decimal(SubSeq(s, 1, Len(s) - 1)) + DigitValue(s[Len(s)])

IsDigits(s) == s # <<>> /\ \A i \in 1..Len(s) : s[i] \in Digits

\* pd.to_numeric(..., errors='coerce') of one string
ToNumeric(s) ==
  IF IsDigits(s) THEN Decimal(s)
  ELSE IF s # <<>> /\ Head(s) = "+" /\ IsDigits(Tail(s)) THEN Decimal(Tail(s))
  ELSE IF s # <<>> /\ Head(s) = "-" /\ IsDigits(Tail(s)) THEN 0 - Decimal(Tail(s))
  ELSE NaN

\* str.replace(r'[+-,]', '', regex=True) of chart.py lines 249 and 311: the
\* class is the range from '+' to ',', which holds '+' and ',' only
StripNormalizer(s) == SelectSeq(s, LAMBDA c : c \notin {"+", ","})

\* the numeric coercion of the Series Normalizer (chart.py lines 246-251)
Coerce(s) == ToNumeric(StripNormalizer(s))

\* KiwoomAPI._safe_number_str of a string: '+' and ',' removed, a negative
\* zero and the empty string give '0'
SafeNumberStr(s) ==
  LET value == SelectSeq(s, LAMBDA c : c \notin {"+", ","})
  IN IF value # <<>> /\ Head(value) = "-" /\ IsDigits(Tail(value))
          /\ Decimal(Tail(value)) = 0
       THEN <<"0">>
     ELSE IF value = <<>> THEN <<"0">>
     ELSE value

\* the replace chain of _request_realtime_data: '+', '-' and ',' removed
StripPoller(s) == SelectSeq(s, LAMBDA c : c \notin {"+", "-", ","})

\* float() of a stripped string; NaN stands for its ValueError, after
\* which nothing is published
Float(t) == IF IsDigits(t) THEN Decimal(t) ELSE NaN

\* the price the Poller publishes for the cur_prc of a quote record
PollerNumber(s) == Float(StripPoller(SafeNumberStr(s)))

\* ------------------------------------------------------------ raw records
Run(ts, px, n) == [ts |-> ts, px |-> px, n |-> n]
\* every time string with a well-formed price, and the malformed prices at
\* the first instant
UnitRuns ==
  {Run(ts, px, 1) : ts \in TimeStrings,
                    px \in {p \in PriceStrings : Coerce(p) # NaN}}
    \cup {Run(1, px, 1) : px \in PriceStrings}
FillerRun(n) == Run(1, <<"1">>, n)

RECURSIVE RecLen(_)
\* len() of the record list a run sequence stands for
RecLen(rs) == IF rs = <<>> THEN 0 ELSE Head(rs).n + RecLen(Tail(rs))

RECURSIVE Take(_, _)
\* rs[:k] on the record list a run sequence stands for
Take(rs, k) ==
  IF k <= 0 \/ rs = <<>> THEN <<>>
  ELSE IF Head(rs).n <= k THEN <<Head(rs)>> \o Take(Tail(rs), k - Head(rs).n)
  ELSE <<[Head(rs) EXCEPT !.n = k]>>

RECURSIVE TakeLast(_, _)
\* rs[-k:] on the record list a run sequence stands for (k > 0)
TakeLast(rs, k) ==
  IF k <= 0 \/ rs = <<>> THEN <<>>
  ELSE LET l == rs[Len(rs)]
           front == SubSeq(rs, 1, Len(rs) - 1)
       IN IF l.n <= k THEN TakeLast(front, k - l.n) \o <<l>>
          ELSE <<[l EXCEPT !.n = k]>>

\* all_data.extend(data_list); adjacent runs of the same record are merged
Extend(all_data, list) ==
  IF all_data # <<>> /\ list # <<>>
     /\ all_data[Len(all_data)].ts = Head(list).ts
     /\ all_data[Len(all_data)].px = Head(list).px
  THEN SubSeq(all_data, 1, Len(all_data) - 1)
         \o <<[Head(list) EXCEPT !.n = @ + all_data[Len(all_data)].n]>>
         \o Tail(list)
  ELSE all_data \o list

ExplicitPages ==
  UNION {[1..k -> UnitRuns] : k \in 1..MaxRecords}

OnlyUnits(acc) == \A i \in 1..Len(acc) : acc[i].n = 1

OnlyFiller(acc) ==
  acc = <<>> \/ (Len(acc) = 1 /\ acc[1] = FillerRun(acc[1].n))

\* the record lists a response to a request may carry, given what the
\* caller has accumulated so far: pages of explicit records while few
\* records are accumulated, and pages of one run of the filler record
\* (short or long) while nothing else is accumulated
PagesFor(acc) ==
  {<<>>}
    \cup (IF OnlyUnits(acc)
          THEN {p \in ExplicitPages : Len(acc) + Len(p) <= MaxRecords} ELSE {})
    \cup (IF OnlyFiller(acc)
          THEN {<<FillerRun(1)>>, <<FillerRun(500)>>, <<FillerRun(BulkRun)>>}
          ELSE {})

\* -------------------------------------------------------------- responses
EmptyJson == [rc |-> NoRc, has_list |-> FALSE, list |-> <<>>]
ErrorJson == [rc |-> -1, has_list |-> FALSE, list |-> <<>>]

Body(rc, has_list, list) == [rc |-> rc, has_list |-> has_list, list |-> list]

Response(kind, status, json, body, cont, key) ==
  [kind |-> kind, status |-> status, json |-> json, body |-> body,
   cont |-> cont, key |-> key]

\* requests.post raised a RequestException (timeout, connection error)
TransportError == Response("exc", 0, FALSE, EmptyJson, "N", "")

\* the cont-yn / next-key response headers
Headers == {<<"N", "">>, <<"Y", "k1">>}

\* HTTP 200, decodable body, return_code 0 or absent
OkResponses(acc) ==
  {Response("http", 200, TRUE, b, h[1], h[2]) :
     h \in Headers,
     b \in {Body(0, TRUE, p) : p \in PagesFor(acc)}
             \cup {Body(0, FALSE, <<>>), Body(NoRc, TRUE, <<FillerRun(1)>>)}}

\* HTTP 200, decodable body, a return_code other than 0
CodeResponses ==
  {Response("http", 200, TRUE, Body(rc, FALSE, <<>>), h[1], h[2]) :
     h \in {<<"Y", "k1">>},
     rc \in AuthFailCodes \cup {OtherErrorCode}}

\* HTTP 200 with a body that is not JSON; any non-200 status
OtherResponses ==
  {Response("http", 200, FALSE, EmptyJson, h[1], h[2]) : h \in Headers}
    \cup {Response("http", 500, FALSE, EmptyJson, "Y", "k1")}
    \cup {Response("http", 500, TRUE, b, "Y", "k1") :
            b \in {Body(0, TRUE, <<FillerRun(1)>>), Body(NoRc, FALSE, <<>>),
                   Body(3, FALSE, <<>>)}}

Responses(acc) ==
  {TransportError} \cup OkResponses(acc) \cup CodeResponses \cup OtherResponses

\* the cur_prc strings of a quote record
QuotePrices == {<<"a">>, <<"1">>, <<"-", "1">>}

\* the responses to a quote request (ka10095): the list of the body is
\* "atn_stk_infr"
QuoteResponses ==
  {TransportError, Response("http", 500, FALSE, EmptyJson, "N", "")}
    \cup {Response("http", 200, TRUE, Body(0, TRUE, <<Run(1, px, 1)>>), "N", "") :
            px \in QuotePrices}
    \cup {Response("http", 200, TRUE, Body(0, FALSE, <<>>), "N", "")}
    \cup CodeResponses

\* what the server may answer to the request of an operation
ResponsesTo(api_id, acc) ==
  IF api_id = STOCK_INFO_API_ID THEN QuoteResponses ELSE Responses(acc)

\* ------------------------------------------------------------- call frame
IdleCall ==
  [pc |-> "idle", api_id |-> "", retries |-> 0, cont_yn |-> "N", next_key |-> "",
   tok |-> NoToken, phase |-> "first", resp |-> EmptyJson,
   result |-> [data |-> EmptyJson, next_key |-> "", cont_yn |-> "N"],
   sent |-> <<>>, resps |-> <<>>, invalidated |-> <<>>, issuedAtFail |-> 0]

NewCallUnthreaded(api_id, cont_yn, next_key) ==
  [IdleCall EXCEPT !.pc = "enter", !.api_id = api_id, !.retries = 1]

\* _api_request entered with its arguments (line 222)
NewCall(api_id, cont_yn, next_key) ==
  [IdleCall EXCEPT !.pc = "enter", !.api_id = api_id, !.retries = 1,
                   !.cont_yn = cont_yn, !.next_key = next_key]

IdleFetch ==
  [pc |-> "idle", caller |-> "none", api_id |-> "", count |-> NoCount,
   all_data |-> <<>>, cont_yn |-> "N", next_key |-> "", request_count |-> 0,
   result |-> <<>>, sends |-> 0, prev_data |-> <<>>, lastOk |-> TRUE,
   lastCont |-> "N", columns |-> "all", df |-> <<>>]

IdleChart ==
  [is_loading |-> FALSE, current_stock_code |-> NoStock,
   current_period |-> "D", chart_data |-> <<>>,
   timer_active |-> FALSE, loads |-> 0, requested |-> NoCount]

KeepTimer(ch) == ch

\* realtime_timer.stop()
StopTimer(ch) == [ch EXCEPT !.timer_active = FALSE]

\* the hosts of the two trading modes
LiveHost == "https://api.kiwoom.com"
PaperHost == "https://openapi.kiwoom.com"

\* KiwoomAPI.__init__, line 38: the base_url of the session, which
\* _get_access_token and revoke_token prefix to their paths
BaseUrl(is_real) == IF is_real THEN LiveHost ELSE PaperHost

\* _api_request, line 233: the host of every operation request
RequestHost(is_real) == LiveHost

\* the token file absent, or its token and whether its is_real and api_key
\* are those of the session
NoFile == [present |-> FALSE, token |-> NoToken, refresh_token |-> NoToken,
           matches |-> FALSE]
TokenFile(token, refresh_token, matches) ==
  [present |-> TRUE, token |-> token, refresh_token |-> refresh_token,
   matches |-> matches]

\* _get_access_token lines 170-183: the refresh token of the response is
\* kept and _save_token writes the file under the session's mode and key
SaveToken(token, refresh_token, is_real) ==
  [refresh_token |-> refresh_token, is_real |-> is_real,
   file |-> TokenFile(token, refresh_token, TRUE), revoke |-> "none"]

\* the session after __init__ has set its mode and run _load_token on a
\* file
Loaded(file, is_real) ==
  [refresh_token |-> IF file.present THEN file.refresh_token ELSE NoToken,
   is_real |-> is_real, file |-> file, revoke |-> "none"]

\* _load_token: the fields it sets from the file, and its result
LoadToken(file) ==
  IF ~file.present
  THEN [ok |-> FALSE, access_token |-> NoToken, refresh_token |-> NoToken]
  ELSE [ok |-> file.matches, access_token |-> file.token,
        refresh_token |-> file.refresh_token]

IdlePoll == [pc |-> "idle", skipped |-> FALSE, calls |-> 0, quotes |-> <<>>]

\* KiwoomAPI.__init__ on a token file of this session, or on none
Init ==
  /\ access_token \in {NoToken, 1}
  /\ issued = access_token
  /\ cred = IF access_token = NoToken
            THEN Loaded(NoFile, TRUE)
            ELSE Loaded(TokenFile(access_token, access_token, TRUE), TRUE)
  /\ poll = IdlePoll
  /\ call = [c \in Callers |-> IdleCall]
  /\ fetch = IdleFetch
  /\ chart = IdleChart
  /\ emitted = <<>>

\* ---------------------------------------------------------- Request Client
EndpointKnownAll(api_id) == TRUE

\* _get_endpoint_by_api_id: the ids that have an endpoint
EndpointKnown(api_id) == api_id \in ChartApiIds \cup {STOCK_INFO_API_ID}

\* return_code as _api_request reads it (line 282)
ReturnCode(r) ==
  IF r.body.rc # NoRc THEN r.body.rc ELSE IF r.status = 200 THEN 0 ELSE -1

\* the auth-retry condition of line 286
IsAuthFailure(r, retries) ==
  /\ r.kind = "http" /\ r.json
  /\ r.status = 200 /\ ReturnCode(r) \in AuthFailCodes /\ retries > 0

Result(data, next_key, cont_yn) ==
  [data |-> data, next_key |-> next_key, cont_yn |-> cont_yn]

ApiResultNoHeaders(r) ==
  IF r.kind = "exc" THEN Result(EmptyJson, "", "ERR")
  ELSE IF ~r.json
    THEN IF r.status # 200 THEN Result(EmptyJson, "", "ERR")
         ELSE Result(EmptyJson, r.key, r.cont)
  ELSE IF r.status = 200 /\ ReturnCode(r) = 0
    THEN Result(r.body, "", "N")
  ELSE Result(r.body, "", "ERR")

ApiResultForwards(r) ==
  IF r.kind = "exc" THEN Result(EmptyJson, "", "ERR")
  ELSE IF ~r.json
    THEN IF r.status # 200 THEN Result(EmptyJson, "", "ERR")
         ELSE Result(EmptyJson, r.key, r.cont)
  ELSE Result(r.body, r.key, r.cont)

\* what _api_request returns for a response that does not take the
\* auth-retry branch (lines 262-309)
ApiResult(r) ==
  IF r.kind = "exc" THEN Result(EmptyJson, "", "ERR")
  ELSE IF ~r.json
    THEN IF r.status # 200 THEN Result(EmptyJson, "", "ERR")
         ELSE Result(EmptyJson, r.key, r.cont)
  ELSE IF r.status = 200 /\ ReturnCode(r) = 0
    THEN Result(r.body, r.key, r.cont)
  ELSE Result(r.body, "", "ERR")

\* the outcome class of a response, as the Request Client classifies it
IsOk(r) == r.kind = "http" /\ r.json /\ r.status = 200 /\ ReturnCode(r) = 0

RetryBudgetKept(retries) == retries

\* the retries argument of the recursive call of line 294
RetryBudget(retries) == 0

InvalidateSkipped(tok) == tok

\* the assignment of line 288
Invalidate(tok) == NoToken

TokenHeldNever(tok) == FALSE

\* the test of _ensure_token (line 128)
TokenHeld(tok) == tok # NoToken

\* _api_request, lines 224-241: endpoint lookup, then _ensure_token's test
ApiRequestEnter(c) ==
  /\ call[c].pc = "enter"
  /\ call' = [call EXCEPT ![c] =
       IF ~EndpointKnown(@.api_id)
         THEN [@ EXCEPT !.pc = "done", !.result = Result(ErrorJson, "", "ERR")]
       ELSE IF TokenHeld(access_token)
         THEN [@ EXCEPT !.pc = "post", !.tok = access_token]
       ELSE [@ EXCEPT !.pc = "issue", !.phase = "first"]]
  /\ UNCHANGED <<access_token, issued, fetch, chart, emitted, poll, cred>>

\* what the issuance endpoint may give besides a token: a 200 body without
\* "token" (the token becomes ""), a 200 body whose "token" is null (the
\* slice of line 180 raises), or a failure (no key or secret, a status
\* other than 200, a body that is not JSON, a transport error)
IssueOutcomes == {"empty", "null", "fail"}

\* _get_access_token called from _ensure_token, and what the call site does
\* with the token (line 238 on entry, line 291 after an auth failure).
\* A failed issuance raises ValueError, which no handler of _api_request
\* catches.
GetAccessToken(c) ==
  /\ call[c].pc = "issue"
  /\ \E o \in (IF issued < MaxIssue THEN {"token"} ELSE {}) \cup IssueOutcomes :
       IF o = "fail"
       THEN /\ call' = [call EXCEPT ![c].pc = "raised"]
            /\ UNCHANGED <<access_token, issued, cred>>
       ELSE IF o = "null"
       THEN \* lines 174-175 have assigned the pair when line 180 raises
            /\ call' = [call EXCEPT ![c].pc = "raised"]
            /\ access_token' = NoToken
            /\ cred' = [cred EXCEPT !.refresh_token = NoToken]
            /\ UNCHANGED issued
       ELSE LET t == IF o = "token" THEN issued + 1 ELSE NoToken IN
            /\ access_token' = t
            /\ cred' = SaveToken(t, t, cred.is_real)
            /\ issued' = IF o = "token" THEN issued + 1 ELSE issued
            /\ call' = [call EXCEPT ![c] =
                 IF @.phase = "first"
                 THEN IF t # NoToken
                      THEN [@ EXCEPT !.pc = "post", !.tok = t]
                      ELSE [@ EXCEPT !.pc = "done",
                                     !.result = Result(ErrorJson, "", "ERR")]
                 ELSE IF t # NoToken
                      THEN [@ EXCEPT !.pc = "enter",
                                     !.retries = RetryBudget(@)]
                      ELSE [@ EXCEPT !.pc = "done",
                                     !.result = Result(call[c].resp, "", "ERR")]]
  /\ UNCHANGED <<fetch, chart, emitted, poll>>

\* requests.post and the handling of its response, lines 243-309
Post(c) ==
  /\ call[c].pc = "post"
  /\ \E r \in ResponsesTo(call[c].api_id,
                         IF c = "main" THEN fetch.all_data ELSE <<>>) :
       LET sent == Append(call[c].sent,
                     [tok |-> call[c].tok, cont_yn |-> call[c].cont_yn,
                      next_key |-> call[c].next_key,
                      host |-> RequestHost(cred.is_real)])
           resps == Append(call[c].resps, r)
       IN IF IsAuthFailure(r, call[c].retries)
          THEN /\ access_token' = Invalidate(access_token)
               /\ call' = [call EXCEPT ![c] =
                    [@ EXCEPT !.pc = "reensure", !.resp = r.body,
                              !.sent = sent, !.resps = resps,
                              !.invalidated = Append(@, access_token),
                              !.issuedAtFail = issued]]
          ELSE /\ UNCHANGED access_token
               /\ call' = [call EXCEPT ![c] =
                    [@ EXCEPT !.pc = "done", !.result = ApiResult(r),
                              !.sent = sent, !.resps = resps]]
  /\ fetch' = IF c = "main" /\ fetch.pc = "calling"
              THEN [fetch EXCEPT !.sends = @ + 1] ELSE fetch
  /\ UNCHANGED <<issued, chart, emitted, poll, cred>>

\* _ensure_token at line 290, after the invalidation of line 288
ReEnsure(c) ==
  /\ call[c].pc = "reensure"
  /\ call' = [call EXCEPT ![c] =
       IF TokenHeld(access_token)
       THEN [@ EXCEPT !.pc = "enter", !.retries = RetryBudget(@)]
       ELSE [@ EXCEPT !.pc = "issue", !.phase = "reissue"]]
  /\ UNCHANGED <<access_token, issued, fetch, chart, emitted, poll, cred>>

ApiRequest(c) ==
  \/ ApiRequestEnter(c)
  \/ GetAccessToken(c)
  \/ Post(c)
  \/ ReEnsure(c)

\* ------------------------------------------------------ Bulk Series Fetcher
\* _extract_chart_data: the record list of a payload, or none
ExtractChartData(data) ==
  IF data.rc # 0 THEN [found |-> FALSE, list |-> <<>>]
  ELSE [found |-> data.has_list, list |-> data.list]

TruncateNone(all_data, count) == all_data

TruncateOldest(all_data, count) ==
  IF count # NoCount /\ RecLen(all_data) > count
  THEN TakeLast(all_data, count) ELSE all_data

\* the final slice of _fetch_chart_data (lines 139-145)
Truncate(all_data, count) ==
  IF count # NoCount /\ RecLen(all_data) > count
  THEN Take(all_data, count) ELSE all_data

StopAfterPageIgnoresFlag(cont_yn, all_data, count) ==
  \/ count # NoCount /\ RecLen(all_data) >= count
  \/ RecLen(all_data) >= MAX_TOTAL_DATA

\* the loop tests of lines 121-129, after a page was appended
StopAfterPage(cont_yn, all_data, count) ==
  \/ cont_yn # "Y"
  \/ count # NoCount /\ RecLen(all_data) >= count
  \/ RecLen(all_data) >= MAX_TOTAL_DATA

\* the final response of a logical call was classified ok
CallOk(cl) == cl.resps # <<>> /\ IsOk(cl.resps[Len(cl.resps)])

\* _fetch_chart_data entered (lines 63-68)
FetchBegin(caller, api_id, count) ==
  [IdleFetch EXCEPT !.pc = "loop", !.caller = caller, !.api_id = api_id,
                    !.count = count]

\* get_stock_ohlcv_chart called directly for the daily period
FetchStart ==
  /\ fetch.pc = "idle" /\ ~chart.is_loading
  /\ \E count \in {NoCount} \cup 1..MaxCount :
       fetch' = FetchBegin("direct", API_ID_DAILY_CHART, count)
  /\ UNCHANGED <<access_token, issued, call, chart, emitted, poll, cred>>

LoopContinuesOffByOne(request_count) == request_count <= MAX_REQUESTS

\* the while test of line 70
LoopContinues(request_count) == request_count < MAX_REQUESTS

\* the while test of line 70 and the call of lines 71-79
FetchIter ==
  /\ fetch.pc = "loop"
  /\ IF LoopContinues(fetch.request_count)
     THEN /\ fetch' = [fetch EXCEPT !.pc = "calling", !.request_count = @ + 1]
          /\ call' = [call EXCEPT !["main"] =
               NewCall(fetch.api_id, fetch.cont_yn, fetch.next_key)]
     ELSE /\ fetch' = [fetch EXCEPT !.pc = "after"]
          /\ UNCHANGED call
  /\ UNCHANGED <<access_token, issued, chart, emitted, poll, cred>>

\* lines 90-129: the page returned by _api_request is examined
FetchOnReturn ==
  /\ fetch.pc = "calling" /\ call["main"].pc = "done"
  /\ LET res == call["main"].result
         ex == ExtractChartData(res.data)
         ghost == [fetch EXCEPT !.prev_data = fetch.all_data,
                                !.lastOk = CallOk(call["main"]),
                                !.lastCont = res.cont_yn]
     IN fetch' =
          IF res.data.rc # 0 THEN [ghost EXCEPT !.pc = "after"]
          ELSE IF ~ex.found \/ ex.list = <<>> THEN [ghost EXCEPT !.pc = "after"]
          ELSE LET all == Extend(fetch.all_data, ex.list) IN
               [ghost EXCEPT !.all_data = all,
                             !.cont_yn = res.cont_yn,
                             !.next_key = res.next_key,
                             !.pc = IF StopAfterPage(res.cont_yn, all, fetch.count)
                                    THEN "after" ELSE "loop"]
  /\ call' = [call EXCEPT !["main"] = IdleCall]
  /\ UNCHANGED <<access_token, issued, chart, emitted, poll, cred>>

\* the ValueError of a failed issuance leaves _fetch_chart_data, which has
\* no handler
FetchOnRaise ==
  /\ fetch.pc = "calling" /\ call["main"].pc = "raised"
  /\ fetch' = [fetch EXCEPT !.pc = "raised", !.prev_data = fetch.all_data,
                            !.lastOk = FALSE]
  /\ call' = [call EXCEPT !["main"] = IdleCall]
  /\ UNCHANGED <<access_token, issued, chart, emitted, poll, cred>>

\* lines 131-145: the list returned
FetchFinish ==
  /\ fetch.pc = "after"
  /\ fetch' = [fetch EXCEPT !.pc = "returned",
                            !.result = Truncate(fetch.all_data, fetch.count)]
  /\ UNCHANGED <<access_token, issued, call, chart, emitted, poll, cred>>

\* the direct caller takes the list or the exception
FetchEnd ==
  /\ fetch.pc \in {"returned", "raised"} /\ fetch.caller = "direct"
  /\ fetch' = IdleFetch
  /\ UNCHANGED <<access_token, issued, call, chart, emitted, poll, cred>>

FetchChartData ==
  \/ FetchIter
  \/ FetchOnReturn
  \/ FetchOnRaise
  \/ FetchFinish

\* --------------------------------------------------------- Series Normalizer
IsTick(period) == period = "1T"
IsBar(period) == period \in {"D", "5"}

\* the chart call load_chart_data selects for a period (lines 96-110)
ApiIdFor(period) ==
  IF period = "D" THEN API_ID_DAILY_CHART
  ELSE IF period = "5" THEN API_ID_MINUTE_CHART
  ELSE API_ID_TICK_CHART

\* df.dropna(subset=['Date']): the runs whose time string parsed
ValidRuns(rs) == SelectSeq(rs, LAMBDA r : r.ts # BadTs)

Stamps(rs) == {rs[i].ts : i \in 1..Len(rs)}

\* DatetimeIndex.is_monotonic_increasing, for which sort_index keeps the
\* frame as it is
Monotonic(rs) == \A i, j \in 1..Len(rs) : i < j => rs[i].ts <= rs[j].ts

RECURSIVE Ascending(_)
\* the members of a set of integers in increasing order
Ascending(S) ==
  IF S = {} THEN <<>>
  ELSE LET m == CHOOSE x \in S : \A y \in S : x <= y
       IN <<m>> \o Ascending(S \ {m})

\* sort_index (quicksort, which is not stable) followed by
\* duplicated(keep='last'): for every time stamp, the position in the
\* arrival order of the run that ends last among its equals.  An index
\* already in order is not permuted, so the last arrival is kept.
KeptChoices(rs) ==
  {f \in [Stamps(rs) -> 1..Len(rs)] :
     \A t \in Stamps(rs) :
        /\ rs[f[t]].ts = t
        /\ Monotonic(rs) => \A i \in 1..Len(rs) : rs[i].ts = t => i <= f[t]}

\* lines 207-216 and 246-251: one row per time stamp in increasing order,
\* the ordinal column, the numeric coercion of the price
IndexedRows(rs, f) ==
  LET order == Ascending(Stamps(rs))
  IN [i \in 1..Len(order) |->
        [ts |-> order[i], px |-> Coerce(rs[f[order[i]]].px),
         raw |-> rs[f[order[i]]].px, ordinal |-> i - 1]]

RECURSIVE Ffill(_, _)
\* DataFrame.ffill on the price column: a NaN takes the value above it
Ffill(rows, last) ==
  IF rows = <<>> THEN <<>>
  ELSE LET v == IF Head(rows).px = NaN THEN last ELSE Head(rows).px
       IN <<[Head(rows) EXCEPT !.px = v]>> \o Ffill(Tail(rows), v)

DropNaN(rows) == SelectSeq(rows, LAMBDA r : r.px # NaN)

\* calculate_indicators (indicators.py lines 20-50 and the return of the
\* enriched frame): rows as returned
CalculateIndicators(rows) ==
  IF rows = <<>> THEN rows
  ELSE IF \E i \in 1..Len(rows) : rows[i].px = NaN
    THEN LET filled == DropNaN(Ffill(rows, NaN))
         IN IF filled = <<>> THEN rows ELSE filled
  ELSE rows

\* the ordinal numbering of line 216
Ordinals(n) == [i \in 1..n |-> i - 1]

\* lines 268-291: the frame that becomes chart_data, or a raise
\* (the assignment of line 271 needs as many ordinals as rows)
Enrich(period, df) ==
  IF IsTick(period)
  THEN [raised |-> FALSE, frame |-> DropNaN(df)]
  ELSE LET res == CalculateIndicators(df)
       IN IF Len(res) # Len(df)
          THEN [raised |-> TRUE, frame |-> <<>>]
          ELSE [raised |-> FALSE,
                frame |-> [i \in 1..Len(res) |->
                             [res[i] EXCEPT !.ordinal = df[i].ordinal]]]

\* ------------------------------------------------------------- ChartModule
\* load_chart_data lines 66-123, up to the call of the chart API
LoadRequest(period, count) ==
  /\ fetch.pc = "idle" /\ poll.pc = "idle" /\ chart.loads < MaxLoads
  /\ ~chart.is_loading
  /\ LET data_count == IF count # NoCount THEN count ELSE DEFAULT_DATA_COUNT
           started == [StopTimer(chart) EXCEPT !.is_loading = TRUE,
                                    !.current_stock_code = StockCode,
                                    !.current_period = period,
                                    !.loads = @ + 1,
                                    !.requested = data_count]
       IN IF period \in Periods
          THEN /\ chart' = started
               /\ fetch' = FetchBegin("load", ApiIdFor(period), data_count)
               /\ emitted' = <<>>
          ELSE /\ chart' = [started EXCEPT !.is_loading = FALSE]
               /\ emitted' = << <<>> >>
               /\ UNCHANGED fetch
  /\ UNCHANGED <<access_token, issued, call, poll, cred>>

\* load_chart_data called with any period and count
LoadStart ==
  \E period \in Periods \cup {BadPeriod}, count \in {NoCount} \cup 1..MaxCount :
    LoadRequest(period, count)

\* the keys the records of a returned list carry: all of them, or all but
\* the time key, the close key, or the open/high/low keys
ColumnSets == {"all", "no_time", "no_close", "no_ohl"}

\* the columns tested at lines 149-151 are there
HasTimeAndClose(columns) == columns \notin {"no_time", "no_close"}

\* the columns tested at lines 229-241 are there
HasRequired(period, columns) == IsTick(period) \/ columns = "all"

\* lines 125-265 and, when normalization does not fail, lines 267-341,
\* once the chart API has returned its list
LoadOnReturn ==
  /\ fetch.pc = "returned" /\ fetch.caller = "load"
  /\ LET period == chart.current_period
         ohlcv_data == fetch.result
         valid == ValidRuns(ohlcv_data)
         restart == IsTick(period)
         \* the handler of lines 261-265: an empty frame is emitted and
         \* is_loading cleared, and load_chart_data goes on with df
         handled(df) ==
           /\ chart' = [chart EXCEPT !.chart_data = <<>>,
                                     !.is_loading = FALSE]
           /\ emitted' = Append(emitted, <<>>)
           /\ fetch' = [fetch EXCEPT !.pc = "handled", !.df = df]
     IN IF ohlcv_data = <<>>
        THEN /\ chart' = [chart EXCEPT !.chart_data = <<>>,
                                       !.timer_active = restart,
                                       !.is_loading = FALSE]
             /\ emitted' = Append(emitted, <<>>)
             /\ fetch' = [fetch EXCEPT !.pc = "idle"]
        ELSE IF ~HasTimeAndClose(fetch.columns)
        THEN \* ValueError of lines 149-151; df is the raw frame
             handled(<<>>)
        ELSE IF valid = <<>>
        THEN \* ValueError of line 204; df is empty
             handled(<<>>)
        ELSE \E f \in KeptChoices(valid) :
               LET df == IndexedRows(valid, f)
                   e == Enrich(period, df)
               IN IF ~HasRequired(period, fetch.columns)
                  THEN \* ValueError of line 233; df is the indexed frame
                       handled(df)
                  ELSE IF e.raised
                  THEN \* handler of line 336
                       /\ chart' = [chart EXCEPT !.chart_data = <<>>,
                                                 !.is_loading = FALSE]
                       /\ emitted' = Append(emitted, <<>>)
                       /\ fetch' = [fetch EXCEPT !.pc = "idle"]
                  ELSE /\ chart' = [chart EXCEPT !.chart_data = e.frame,
                                                 !.timer_active = restart,
                                                 !.is_loading = FALSE]
                       /\ emitted' = Append(emitted, e.frame)
                       /\ fetch' = [fetch EXCEPT !.pc = "idle"]
  /\ UNCHANGED <<access_token, issued, call, poll, cred>>

\* lines 267-341 after the handler of line 261: a raw frame raises
\* KeyError at line 270 or 276 and the handler of line 336 emits a second
\* empty frame; an empty or indexed frame passes calculate_indicators
\* unchanged (line 27) or is assigned at line 290, and line 330 emits it
LoadAfterHandler ==
  /\ fetch.pc = "handled" /\ fetch.caller = "load"
  /\ IF ~HasTimeAndClose(fetch.columns)
     THEN /\ chart' = [chart EXCEPT !.chart_data = <<>>, !.is_loading = FALSE]
          /\ emitted' = Append(emitted, <<>>)
     ELSE /\ chart' = [chart EXCEPT !.chart_data = fetch.df,
                                    !.timer_active = IsTick(chart.current_period),
                                    !.is_loading = FALSE]
          /\ emitted' = Append(emitted, fetch.df)
  /\ fetch' = [fetch EXCEPT !.pc = "idle", !.df = <<>>]
  /\ UNCHANGED <<access_token, issued, call, poll, cred>>

\* the chart API raised: handler of line 336, then finally
LoadOnRaise ==
  /\ fetch.pc = "raised" /\ fetch.caller = "load"
  /\ chart' = [chart EXCEPT !.chart_data = <<>>, !.is_loading = FALSE]
  /\ emitted' = Append(emitted, <<>>)
  /\ fetch' = [fetch EXCEPT !.pc = "idle"]
  /\ UNCHANGED <<access_token, issued, call, poll, cred>>

LoadChartData ==
  \/ LoadStart
  \/ LoadOnReturn
  \/ LoadAfterHandler
  \/ LoadOnRaise

\* ChartWindow._request_chart_load: a period button asks for a period
\* other than the current one, with the default count
RequestChartLoad(period) ==
  period # chart.current_period /\ LoadRequest(period, NoCount)

\* ChartWindow._handle_detail_period_selected for a tick period
TickSelected == RequestChartLoad("1T")

GetStockPriceAny(res) == [found |-> TRUE, cur_prc |-> <<"1">>]

\* get_stock_price on what _api_request returned: the cur_prc of the first
\* quote record, or nothing
GetStockPrice(res) ==
  IF res.data.rc # 0 \/ ~res.data.has_list \/ res.data.list = <<>>
  THEN [found |-> FALSE, cur_prc |-> <<>>]
  ELSE [found |-> TRUE, cur_prc |-> SafeNumberStr(res.data.list[1].px)]

LoadingIgnored(ch) == FALSE

\* the test of line 350
Loading(ch) == ch.is_loading

\* _request_realtime_data, lines 345-359: a timer tick is handled; the slot
\* runs on the thread of load_chart_data, so not between the handler of
\* line 261 and the statements after it
PollTick ==
  /\ poll.pc = "idle" /\ fetch.pc # "handled"
  /\ IF chart.current_stock_code = NoStock \/ ~IsTick(chart.current_period)
     THEN /\ chart' = StopTimer(chart)
          /\ UNCHANGED <<poll, call>>
     ELSE IF Loading(chart)
     THEN /\ poll' = [poll EXCEPT !.skipped = TRUE]
          /\ UNCHANGED <<chart, call>>
     ELSE /\ poll.calls < MaxPolls
          /\ poll' = [poll EXCEPT !.pc = "calling", !.skipped = FALSE,
                                  !.calls = @ + 1]
          /\ call' = [call EXCEPT !["main"] = NewCall(STOCK_INFO_API_ID, "N", "")]
          /\ UNCHANGED chart
  /\ UNCHANGED <<access_token, issued, fetch, emitted, cred>>

\* lines 361-377: the quote, or the exception get_stock_price swallows
PollOnReturn ==
  /\ poll.pc = "calling" /\ call["main"].pc \in {"done", "raised"}
  /\ LET latest_data_raw ==
           IF call["main"].pc = "raised"
           THEN [found |-> FALSE, cur_prc |-> <<>>]
           ELSE GetStockPrice(call["main"].result)
         price == Float(StripPoller(latest_data_raw.cur_prc))
     IN poll' = [poll EXCEPT !.pc = "idle",
                             !.quotes = IF latest_data_raw.found /\ price # NaN
                                        THEN Append(@, price) ELSE @]
  /\ call' = [call EXCEPT !["main"] = IdleCall]
  /\ UNCHANGED <<access_token, issued, fetch, chart, emitted, cred>>

RequestRealtimeData ==
  \/ PollTick
  \/ PollOnReturn

Next ==
  \/ ApiRequest("main")
  \/ FetchStart
  \/ FetchChartData
  \/ FetchEnd

Spec == Init /\ [][Next]_vars

NextLoad ==
  \/ ApiRequest("main")
  \/ FetchChartData
  \/ LoadChartData

SpecLoad == Init /\ [][NextLoad]_vars

\* a chart window that shows the daily chart: the tick button, the load it
\* starts and the timer slot
NextPoll ==
  \/ ApiRequest("main")
  \/ FetchChartData
  \/ TickSelected
  \/ LoadOnReturn
  \/ LoadAfterHandler
  \/ LoadOnRaise
  \/ RequestRealtimeData

SpecPoll == Init /\ [][NextPoll]_vars

\* WatchlistUpdateWorker.run, lines 40-53: the quote call for the next stock
WorkerStart ==
  /\ call["worker"].pc = "idle"
  /\ call' = [call EXCEPT !["worker"] = NewCall(STOCK_INFO_API_ID, "N", "")]
  /\ UNCHANGED <<access_token, issued, fetch, chart, emitted, poll, cred>>

\* lines 54-87: the quote, or the exception get_stock_price swallows, goes
\* into the result list
WorkerOnReturn ==
  /\ call["worker"].pc \in {"done", "raised"}
  /\ call' = [call EXCEPT !["worker"] = IdleCall]
  /\ UNCHANGED <<access_token, issued, fetch, chart, emitted, poll, cred>>

WorkerRun ==
  \/ WorkerStart
  \/ WorkerOnReturn

\* a chart window on a tick period whose load returned no record (lines
\* 125-137 of chart.py: the timer runs), with the watchlist open
InitConc ==
  /\ access_token \in {NoToken, 1}
  /\ issued = access_token
  /\ cred = IF access_token = NoToken
            THEN Loaded(NoFile, TRUE)
            ELSE SaveToken(access_token, access_token, TRUE)
  /\ poll = IdlePoll
  /\ call = [c \in Callers |-> IdleCall]
  /\ fetch = IdleFetch
  /\ chart = [IdleChart EXCEPT !.current_stock_code = StockCode,
                               !.current_period = "1T", !.timer_active = TRUE,
                               !.loads = 1, !.requested = DEFAULT_DATA_COUNT]
  /\ emitted = << <<>> >>

\* the main thread runs the Poller while the worker thread runs its quote
\* calls on the same KiwoomAPI object; no lock orders their steps
NextConc ==
  \/ ApiRequest("main")
  \/ ApiRequest("worker")
  \/ RequestRealtimeData
  \/ WorkerRun

SpecConc == InitConc /\ [][NextConc]_vars

\* KiwoomAPI.__init__ on no token file, on a file of this session, or on
\* a file saved under another mode or API key
InitCred ==
  /\ \E file \in {NoFile, TokenFile(1, 1, TRUE), TokenFile(1, 1, FALSE)} :
       /\ access_token = LoadToken(file).access_token
       /\ issued = IF file.present THEN 1 ELSE 0
       /\ \E is_real \in BOOLEAN : cred = Loaded(file, is_real)
  /\ poll = IdlePoll
  /\ call = [c \in Callers |-> IdleCall]
  /\ fetch = IdleFetch
  /\ chart = IdleChart
  /\ emitted = <<>>

\* _api_request called with an operation id (line 222)
ApiRequestCall ==
  /\ call["main"].pc = "idle"
  /\ \E api_id \in {API_ID_DAILY_CHART, STOCK_INFO_API_ID, UnknownApiId} :
       call' = [call EXCEPT !["main"] = NewCall(api_id, "N", "")]
  /\ UNCHANGED <<access_token, issued, fetch, chart, emitted, poll, cred>>

\* its caller takes the result or the exception
ApiRequestReturn ==
  /\ call["main"].pc \in {"done", "raised"}
  /\ call' = [call EXCEPT !["main"] = IdleCall]
  /\ UNCHANGED <<access_token, issued, fetch, chart, emitted, poll, cred>>

\* what the revoke endpoint may do: 200 with a JSON body, 200 with a body
\* that is not JSON, another status, or a transport exception
RevokeOutcomes == {"200", "200_not_json", "non200", "exc"}

\* revoke_token
RevokeToken ==
  /\ call["main"].pc = "idle"
  /\ IF access_token = NoToken
     THEN /\ cred' = [cred EXCEPT !.revoke = "no_token"]
          /\ UNCHANGED access_token
     ELSE \E o \in RevokeOutcomes :
            IF o = "200"
            THEN /\ access_token' = NoToken
                 /\ cred' = [refresh_token |-> NoToken,
                             is_real |-> cred.is_real, file |-> NoFile,
                             revoke |-> o]
            ELSE /\ cred' = [cred EXCEPT !.revoke = o]
                 /\ UNCHANGED access_token
  /\ UNCHANGED <<issued, call, fetch, chart, emitted, poll>>

NextCred ==
  \/ ApiRequest("main")
  \/ ApiRequestCall
  \/ ApiRequestReturn
  \/ RevokeToken

SpecCred == InitCred /\ [][NextCred]_vars

\* the raw records a chart call may return to load_chart_data
NormPrices == {<<"a">>, <<"1">>, <<"-", "1", ",", "2">>, <<"+", "1", ",", "2">>}
NormRuns == {Run(ts, px, 1) : ts \in TimeStrings, px \in NormPrices}
NormLists == UNION {[1..k -> NormRuns] : k \in 0..MaxRaw}

\* load_chart_data of a new ChartModule at the return of its chart call
\* (line 123), for every period and every list the call may return
InitNorm ==
  /\ access_token = 1 /\ issued = 1
  /\ cred = SaveToken(1, 1, TRUE)
  /\ call = [c \in Callers |-> IdleCall]
  /\ poll = IdlePoll
  /\ emitted = <<>>
  /\ \E period \in Periods, list \in NormLists, columns \in ColumnSets :
       /\ chart = [IdleChart EXCEPT !.is_loading = TRUE,
                                    !.current_stock_code = StockCode,
                                    !.current_period = period,
                                    !.loads = 1,
                                    !.requested = DEFAULT_DATA_COUNT]
       /\ fetch = [FetchBegin("load", ApiIdFor(period), DEFAULT_DATA_COUNT)
                     EXCEPT !.pc = "returned", !.request_count = 1,
                            !.sends = 1, !.all_data = list, !.result = list,
                            !.columns = columns]

NextNorm ==
  \/ LoadOnReturn
  \/ LoadAfterHandler

\* stop_updates, lines 379-382, called between two slots of the main thread
StopUpdates ==
  /\ fetch.pc = "idle" /\ poll.pc = "idle"
  /\ chart' = StopTimer(chart)
  /\ UNCHANGED <<access_token, issued, call, fetch, emitted, poll, cred>>

\* a new ChartModule (lines 48-61), or a chart window on a tick period
\* whose load returned no record (lines 125-137: the timer runs); one
\* more load is accepted and one more quote call made in the behaviour
InitTimer ==
  /\ access_token = NoToken
  /\ issued = 0
  /\ cred = Loaded(NoFile, TRUE)
  /\ poll = [IdlePoll EXCEPT !.calls = MaxPolls - 1]
  /\ call = [c \in Callers |-> IdleCall]
  /\ fetch = IdleFetch
  /\ \/ /\ chart = [IdleChart EXCEPT !.loads = MaxLoads - 1]
        /\ emitted = <<>>
     \/ /\ chart = [IdleChart EXCEPT !.current_stock_code = StockCode,
                                     !.current_period = "1T",
                                     !.timer_active = TRUE,
                                     !.loads = MaxLoads - 1,
                                     !.requested = DEFAULT_DATA_COUNT]
        /\ emitted = << <<>> >>

\* ChartWindow._request_chart_load for any period of the menus, or a
\* period load_chart_data does not support
PeriodSelected ==
  \E period \in Periods \cup {BadPeriod} : RequestChartLoad(period)

NextTimer ==
  \/ ApiRequest("main")
  \/ FetchChartData
  \/ PeriodSelected
  \/ LoadOnReturn
  \/ LoadAfterHandler
  \/ LoadOnRaise
  \/ RequestRealtimeData
  \/ StopUpdates

SpecTimer == InitTimer /\ [][NextTimer]_vars

SpecNorm == InitNorm /\ [][NextNorm]_vars
\* the thread that runs a logical call keeps running it: every step of
\* _api_request is a blocking call with a timeout
FairSpec == Spec /\ WF_vars(ApiRequest("main"))

\* ----------------------------------------------------------------- claims
IsAuthResponse(r) ==
  r.kind = "http" /\ r.json /\ r.status = 200 /\ ReturnCode(r) \in AuthFailCodes

C1_Bounded ==
  \A c \in Callers :
    LET cl == call[c] IN
    /\ Len(cl.sent) <= 2
    /\ Len(cl.invalidated) <= 1
    /\ Len(cl.sent) = 2 =>
         /\ IsAuthResponse(cl.resps[1])
         /\ cl.sent[2].tok # NoToken
         /\ cl.sent[2].tok > cl.issuedAtFail
    /\ Len(cl.resps) = 2 => cl.pc = "done"

\* C1: a logical call sends the operation request at most twice, the second
\* time only after a 200 response with code 3 or 8005 and a reissue that
\* produced a token; the second attempt is final (one invalidation at most)
\* and every logical call ends.
C1_AtMostOneRetry ==
  /\ []C1_Bounded
  /\ (call["main"].pc = "enter") ~> (call["main"].pc \in {"done", "raised"})

C1_Witness ==
  /\ call["main"].pc = "done"
  /\ Len(call["main"].sent) = 2
  /\ IsAuthResponse(call["main"].resps[2])

\* C2: when the first attempt gets an auth-failure code and the attempt
\* after the reissue succeeds, two requests were sent and the call returns
\* the payload, cursor and flag of the second response.
C2_RetryReturnsSecond ==
  \A c \in Callers :
    LET cl == call[c] IN
    (/\ cl.pc = "done" /\ Len(cl.resps) = 2
     /\ IsAuthResponse(cl.resps[1]) /\ IsOk(cl.resps[2]))
    => /\ Len(cl.sent) = 2
       /\ cl.result = Result(cl.resps[2].body, cl.resps[2].key, cl.resps[2].cont)
       /\ cl.result.cont_yn # "ERR"

C2_Witness ==
  LET cl == call["main"] IN
  /\ cl.pc = "done" /\ Len(cl.resps) = 2
  /\ IsAuthResponse(cl.resps[1]) /\ IsOk(cl.resps[2])
  /\ cl.resps[1].cont = "Y" /\ cl.resps[2].cont = "N" /\ cl.resps[2].key = ""
  /\ cl.result.data.list # <<>>

\* C3: the retry carries a token other than the one of the failed attempt:
\* the failed token is cleared before the reissue and the retry carries a
\* token issued after the failure.
C3_RetryTokenIsNew ==
  \A c \in Callers :
    LET cl == call[c] IN
    /\ cl.pc = "reensure" => access_token = NoToken
    /\ cl.pc = "issue" /\ cl.phase = "reissue" => access_token = NoToken
    /\ cl.invalidated # <<>> => cl.invalidated[1] = cl.sent[1].tok
    /\ Len(cl.sent) = 2 =>
         /\ cl.sent[2].tok # cl.sent[1].tok
         /\ cl.sent[2].tok # NoToken
         /\ cl.sent[2].tok > cl.issuedAtFail
         /\ cl.issuedAtFail >= cl.sent[1].tok

C3_Witness ==
  /\ Len(call["main"].sent) = 2
  /\ call["main"].sent[1].tok = 1
  /\ call["main"].sent[2].tok = 2

\* C4: every delivered non-empty Series has the ordinals 0..N-1 in order
\* and strictly increasing time stamps, also when rows were dropped after
\* the ordinals were assigned.
C4_DenseOrdinals ==
  \A k \in 1..Len(emitted) :
    LET s == emitted[k] IN
    /\ \A i \in 1..Len(s) : s[i].ordinal = i - 1
    /\ \A i \in 1..(Len(s) - 1) : s[i].ts < s[i + 1].ts

\* C5: one run of the bulk loop sends at most MAX_REQUESTS requests, the
\* resends of the auth-retry path counted.
C5_TotalSendsBounded == fetch.sends <= MAX_REQUESTS

\* C5 (amended): one run of the bulk loop makes at most MAX_REQUESTS logical
\* calls, and each of them sends the operation request at most twice.
C5_LogicalCallsBounded ==
  /\ fetch.request_count <= MAX_REQUESTS
  /\ fetch.sends <= 2 * fetch.request_count
  /\ fetch.sends <= 2 * MAX_REQUESTS

C5_Witness ==
  /\ fetch.pc = "returned"
  /\ fetch.request_count = MAX_REQUESTS
  /\ fetch.sends > MAX_REQUESTS

\* C6: at every point before the truncation the accumulated list holds at
\* most MAX_TOTAL_DATA records, whatever the sizes of the pages.
C6_AccumulationCapped == RecLen(fetch.all_data) <= MAX_TOTAL_DATA

\* C7: when the call for a page fails, for whatever reason, the bulk fetch
\* raises nothing and returns the records of the pages before it, truncated
\* to the requested count.
C7_SoftFail ==
  /\ fetch.pc # "raised"
  /\ (fetch.pc = "returned" /\ ~fetch.lastOk)
       => fetch.result = Truncate(fetch.prev_data, fetch.count)

\* C8: after a page call that is not ok the loop sends no further request;
\* an error or transport outcome comes back with the flag forced to ERR and
\* an empty cursor, and a 200 response that cannot be decoded stops the loop
\* too, although its headers are passed on.
C8_StopsAfterFailure ==
  /\ ~fetch.lastOk => fetch.pc \notin {"loop", "calling"}
  /\ \A c \in Callers :
       LET cl == call[c] IN
       (cl.pc = "done" /\ ~CallOk(cl)) =>
         IF cl.resps # <<>> /\ cl.resps[Len(cl.resps)].kind = "http"
            /\ cl.resps[Len(cl.resps)].status = 200
            /\ ~cl.resps[Len(cl.resps)].json
         THEN cl.result = Result(EmptyJson, cl.resps[Len(cl.resps)].key,
                                 cl.resps[Len(cl.resps)].cont)
         ELSE cl.result.cont_yn = "ERR" /\ cl.result.next_key = ""

C8_Witness ==
  /\ fetch.pc = "returned" /\ ~fetch.lastOk
  /\ fetch.lastCont = "Y"
  /\ fetch.all_data # <<>>
  /\ fetch.request_count < MAX_REQUESTS

RECURSIVE RecordAt(_, _)
\* the record at position i (from 1) of the list a run sequence stands for
RecordAt(rs, i) ==
  IF i <= Head(rs).n THEN [ts |-> Head(rs).ts, px |-> Head(rs).px]
  ELSE RecordAt(Tail(rs), i - Head(rs).n)

RECURSIVE Breaks(_, _)
\* the first and last position of every run, shifted by off
Breaks(rs, off) ==
  IF rs = <<>> THEN {}
  ELSE {off + 1, off + Head(rs).n} \cup Breaks(Tail(rs), off + Head(rs).n)

\* the records of a are the records of b at the positions off+1, off+2, ...
SameFrom(a, b, off) ==
  /\ off + RecLen(a) <= RecLen(b)
  /\ \A i \in (Breaks(a, 0) \cup {j - off : j \in Breaks(b, 0)}) \cap 1..RecLen(a) :
       RecordAt(a, i) = RecordAt(b, off + i)

IsPrefix(a, b) == SameFrom(a, b, 0)

\* a load for a supported period has come to its end
LoadDone ==
  /\ fetch.pc = "idle" /\ fetch.caller = "load"
  /\ ~chart.is_loading /\ chart.current_period \in Periods

FirstRecords(rs, n) ==
  {RecordAt(rs, i) : i \in 1..(IF n < RecLen(rs) THEN n ELSE RecLen(rs))}

C10_Step ==
  LET page == call["main"].result.data.list
      old == fetch.all_data
      new == fetch'.all_data
      kept == IF fetch.count # NoCount /\ RecLen(new) > fetch.count
              THEN fetch.count ELSE RecLen(new)
  IN /\ (fetch.pc = "calling" /\ fetch'.pc \in {"loop", "after"}) =>
          /\ IsPrefix(old, new)
          /\ RecLen(new) # RecLen(old) =>
               /\ RecLen(new) = RecLen(old) + RecLen(page)
               /\ SameFrom(page, new, RecLen(old))
     /\ (fetch.pc \in {"loop", "after", "calling"}
         /\ fetch'.pc \in {"calling", "returned", "raised"}) => new = old
     /\ (fetch.pc = "after" /\ fetch'.pc = "returned") =>
          /\ IsPrefix(fetch'.result, new)
          /\ RecLen(fetch'.result) = kept

\* C10: the list returned is a prefix of the accepted pages concatenated in
\* the order of their acceptance: its first requestedCount records when it
\* is longer than that, the whole accumulation otherwise.
C10_ReturnsPrefix == [][C10_Step]_vars

C10_Witness ==
  /\ fetch.pc = "returned" /\ fetch.count = 1
  /\ Len(fetch.all_data) = 2 /\ RecLen(fetch.all_data) = 2
  /\ fetch.all_data[1] # fetch.all_data[2]
  /\ fetch.result = <<fetch.all_data[1]>>

\* the position in the arrival order of the last record dated t
LastArrival(rs, t) ==
  CHOOSE k \in 1..Len(rs) :
    rs[k].ts = t /\ \A m \in (k + 1)..Len(rs) : rs[m].ts # t

\* C11: records with the same time stamp give one row, and its values are
\* those of the record that arrived last, whatever the order of the other
\* records.
C11_KeepsLaterPage ==
  (LoadDone /\ fetch.columns = "all")
  => LET rows == chart.chart_data
         src == ValidRuns(fetch.result)
     IN \A i \in 1..Len(rows) :
          /\ \A j \in 1..Len(rows) : rows[j].ts = rows[i].ts => j = i
          /\ rows[i].raw = src[LastArrival(src, rows[i].ts)].px

\* C12: for bar input whose required fields are present the Series has
\* exactly one row per distinct parseable time stamp of the input; records
\* with a malformed time stamp are dropped and no other record is.
C12_OneRowPerStamp ==
  (LoadDone /\ IsBar(chart.current_period) /\ fetch.columns = "all")
  => LET rows == chart.chart_data
     IN /\ Len(rows) = Cardinality(Stamps(ValidRuns(fetch.result)))
        /\ {rows[i].ts : i \in 1..Len(rows)} = Stamps(ValidRuns(fetch.result))

\* the load ended in a DataError: no parseable time stamp, or a required
\* field missing for the period kind
DataError ==
  /\ fetch.result # <<>>
  /\ \/ ValidRuns(fetch.result) = <<>>
     \/ ~HasTimeAndClose(fetch.columns)
     \/ ~HasRequired(chart.current_period, fetch.columns)

\* C13: when normalization fails with a DataError every Series delivered
\* for that load request is empty.
C13_OnlyEmptyAfterDataError ==
  (LoadDone /\ DataError) => \A k \in 1..Len(emitted) : emitted[k] = <<>>

\* C18: calculate_indicators returns as many rows as it was given, in the
\* same order, also when leading rows hold a null.
C18_RowsPreserved ==
  (LoadDone /\ IsBar(chart.current_period) /\ HasTimeAndClose(fetch.columns)
   /\ ValidRuns(fetch.result) # <<>>)
  => \A f \in KeptChoices(ValidRuns(fetch.result)) :
       LET df == IndexedRows(ValidRuns(fetch.result), f)
           res == CalculateIndicators(df)
       IN /\ Len(res) = Len(df)
          /\ \A i \in 1..Len(res) : res[i].ts = df[i].ts

\* C19: the Series Normalizer and the Poller coerce a numeric string the
\* same way, stripping '+', '-' and ',': every delivered row holds the
\* number the Poller would publish for the same raw string.
C19_SameCoercion ==
  (LoadDone /\ fetch.columns = "all")
  => \A i \in 1..Len(chart.chart_data) :
       chart.chart_data[i].px = PollerNumber(chart.chart_data[i].raw)

\* no quote call is in progress, and none was sent, while a bulk fetch is
\* in flight
C14_PollerIdle ==
  fetch.pc # "idle" =>
    /\ poll.pc = "idle"
    /\ call["main"].api_id # STOCK_INFO_API_ID

\* a step of the Poller during a load only records the skipped tick
C14_SkipStep ==
  (chart.is_loading /\ poll' # poll) =>
    /\ poll' = [poll EXCEPT !.skipped = TRUE]
    /\ UNCHANGED <<access_token, issued, call, fetch, chart, emitted, cred>>

\* C14: the Poller makes no network call while a bulk fetch is in flight;
\* a tick between the start and the completion of a load sends nothing,
\* publishes nothing and changes nothing.
C14_NoPollDuringLoad == []C14_PollerIdle /\ [][C14_SkipStep]_vars

C14_Witness ==
  /\ poll.skipped /\ chart.is_loading
  /\ fetch.pc = "calling" /\ call["main"].pc = "post"
  /\ poll.quotes = <<>>

\* a call that got an auth failure invalidates the token its request
\* carried, or finds it invalidated already, and no other token
C15_InvalidatesOwn ==
  \A c \in Callers :
    call[c].invalidated # <<>> =>
      call[c].invalidated[1] \in {NoToken, call[c].sent[1].tok}

\* two calls that failed with the same token are never both about to ask
\* for a new one
C15_OneIssuance ==
  ~ /\ \A c \in Callers : call[c].pc = "issue" /\ call[c].phase = "reissue"
    /\ call["main"].sent[1].tok = call["worker"].sent[1].tok

\* the token of a request about to be sent is the current one
C15_SendsCurrent ==
  \A c \in Callers : call[c].pc = "post" => call[c].tok = access_token

\* C15: when a worker-thread call and a main-thread call run concurrently
\* and both get an auth failure for the same token, one issuance happens
\* for it, the newly issued token is not invalidated by the other call, and
\* no request is sent with a token already invalidated.
C15_CredentialCriticalSection ==
  C15_InvalidatesOwn /\ C15_OneIssuance /\ C15_SendsCurrent

\* C16: a persisted credential whose mode or key does not match is
\* discarded by the load: the load reports failure, the file's token is not
\* held in memory and no request carries it (the next ensure issues a new
\* token).
C16_MismatchDiscarded ==
  (cred.file.present /\ ~cred.file.matches) =>
    /\ ~LoadToken(cred.file).ok
    /\ access_token # cred.file.token
    /\ \A i \in 1..Len(call["main"].sent) :
         call["main"].sent[i].tok # cred.file.token

\* C17: revoke_token with a token held clears the access and refresh
\* tokens in memory and removes the file whatever the endpoint did; with
\* no token held it touches nothing.
C17_RevokeClears ==
  /\ cred.revoke \in RevokeOutcomes =>
       /\ access_token = NoToken
       /\ cred.refresh_token = NoToken
       /\ ~cred.file.present
  /\ cred.revoke = "no_token" => access_token = NoToken

\* the step of _api_request for an id without endpoint
C20_Step ==
  (/\ call["main"].pc = "enter" /\ call["main"].api_id = UnknownApiId
   /\ call'["main"] # call["main"])
  => /\ call'["main"].pc = "done"
     /\ call'["main"].result = Result(ErrorJson, "", "ERR")
     /\ call'["main"].sent = <<>>
     /\ UNCHANGED <<access_token, issued, cred>>

\* a call for an id without endpoint has sent nothing
C20_NoNetwork ==
  call["main"].api_id = UnknownApiId =>
    /\ call["main"].sent = <<>> /\ call["main"].resps = <<>>
    /\ call["main"].pc \in {"idle", "enter", "done"}

\* C20: a call with an operation id that has no endpoint returns the error
\* outcome (no continuation, empty cursor) without network activity or
\* token issuance and leaves the credential as it was.
C20_UnknownOperation == []C20_NoNetwork /\ [][C20_Step]_vars

C20_Witness ==
  /\ call["main"].pc = "done" /\ call["main"].api_id = UnknownApiId
  /\ access_token = NoToken /\ issued = 0

\* the fetcher leaves the examination of a page
PageExamined == fetch.pc = "calling" /\ fetch'.pc \in {"loop", "after"}

\* what follows a page, and what follows the loop test
C21_Step ==
  /\ (PageExamined /\ fetch'.all_data # fetch.all_data) =>
       (fetch'.pc = "loop" <=>
          /\ fetch'.lastCont = "Y"
          /\ fetch.count = NoCount \/ RecLen(fetch'.all_data) < fetch.count
          /\ RecLen(fetch'.all_data) < MAX_TOTAL_DATA)
  /\ (PageExamined /\ fetch'.all_data = fetch.all_data) => fetch'.pc = "after"
  /\ (fetch.pc = "loop" /\ fetch'.pc # "loop") =>
       (fetch'.pc = "calling" <=> fetch.request_count < MAX_REQUESTS)

\* C21: after an accepted page a further page is requested exactly when
\* the returned flag is 'Y', the count is absent or not yet reached, the
\* accumulation is below MAX_TOTAL_DATA and fewer than MAX_REQUESTS calls
\* were made; a page without records ends the loop whatever its flag.
C21_ContinuesIff == [][C21_Step]_vars

\* Scenario B: no count, three pages of 500 records, flags Y, Y, N
C21_Witness ==
  /\ fetch.pc = "after" /\ fetch.count = NoCount
  /\ fetch.request_count = 3 /\ fetch.sends = 3
  /\ fetch.all_data = <<FillerRun(1500)>>
  /\ fetch.lastCont = "N" /\ fetch.lastOk

\* every request of the page being fetched, a resend included, carries the
\* fetcher's current flag and cursor, which are 'N' and '' for the first
\* page; no request is in flight while the next one is prepared
C22_CarriesCursor ==
  /\ fetch.pc = "calling" =>
       /\ \A i \in 1..Len(call["main"].sent) :
            /\ call["main"].sent[i].cont_yn = fetch.cont_yn
            /\ call["main"].sent[i].next_key = fetch.next_key
       /\ call["main"].pc \in {"enter", "post"} =>
            /\ call["main"].cont_yn = fetch.cont_yn
            /\ call["main"].next_key = fetch.next_key
       /\ fetch.request_count = 1 => fetch.cont_yn = "N" /\ fetch.next_key = ""
  /\ fetch.pc \in {"loop", "after"} => call["main"].pc = "idle"

\* when another page follows, the fetcher's flag and cursor become those
\* of the response just received
C22_Step ==
  (PageExamined /\ fetch'.pc = "loop") =>
    LET r == call["main"].resps[Len(call["main"].resps)]
    IN fetch'.cont_yn = r.cont /\ fetch'.next_key = r.key

\* C22: the pages of a bulk fetch are requested one at a time; the first
\* request carries 'N' and an empty cursor, request k+1 the flag and cursor
\* of response k, and an auth-retry resend those of the attempt it repeats.
C22_CursorThreaded == []C22_CarriesCursor /\ [][C22_Step]_vars

C22_Witness ==
  /\ fetch.pc = "calling" /\ fetch.request_count = 2
  /\ Len(call["main"].sent) = 2
  /\ call["main"].sent[2].cont_yn = "Y" /\ call["main"].sent[2].next_key = "k1"

\* _ensure_token at the entry of a call and after an invalidation: it goes
\* to the issuance exactly when no token is held and changes nothing
\* itself; a held token is the one the request will carry
C23_EnsureStep ==
  (/\ call["main"].pc \in {"enter", "reensure"}
   /\ call["main"].api_id # UnknownApiId
   /\ call'["main"].pc # call["main"].pc)
  => /\ call'["main"].pc = "issue" <=> access_token = NoToken
     /\ UNCHANGED <<access_token, issued, cred>>
     /\ (call["main"].pc = "enter" /\ access_token # NoToken) =>
          call'["main"].pc = "post" /\ call'["main"].tok = access_token

\* a held token is lost only by the invalidation that follows an
\* auth-failure response, or by a revoke; a token is issued only by the
\* issuance ensure went to
C23_ClearStep ==
  /\ (access_token # NoToken /\ access_token' = NoToken) =>
       \/ /\ call["main"].pc = "post" /\ call'["main"].pc = "reensure"
          /\ IsAuthResponse(call'["main"].resps[Len(call'["main"].resps)])
       \/ cred'.revoke = "200" /\ call' = call
  /\ issued' # issued => call["main"].pc = "issue"

C24_Step ==
  /\ (call["main"].pc = "issue" /\ call'["main"].pc = "raised") =>
       UNCHANGED <<access_token, cred>>
  /\ (call["main"].pc = "issue" /\ call'["main"].pc \notin {"issue", "raised"}) =>
       /\ cred'.file = TokenFile(access_token', cred'.refresh_token, TRUE)
       /\ cred'.revoke = "none"

\* C24: a failed issue() leaves the token pair in memory and the persisted
\* credential as they were; a successful issue() replaces the pair and
\* persists it with the session's mode and key.
C24_IssueAtomic == [][C24_Step]_vars

\* the quote call of a tick ended with an ok response whose first record
\* has a price the Poller can read
QuoteRead ==
  /\ call["main"].pc = "done" /\ CallOk(call["main"])
  /\ LET r == call["main"].resps[Len(call["main"].resps)]
     IN /\ r.body.has_list /\ r.body.list # <<>>
        /\ PollerNumber(r.body.list[1].px) # NaN

\* a step of a poll tick or of its quote call leaves the Series, the
\* period, the loading flag and the delivered Series alone; when the call
\* is over the tick publishes the quote it read, or nothing, and the call
\* frame is free again
C25_Step ==
  /\ (poll.pc = "calling" \/ poll' # poll) =>
       /\ chart'.chart_data = chart.chart_data
       /\ chart'.current_period = chart.current_period
       /\ chart'.is_loading = chart.is_loading
       /\ emitted' = emitted /\ fetch' = fetch
  /\ (poll.pc = "calling" /\ poll'.pc = "idle") =>
       /\ call'["main"] = IdleCall
       /\ poll'.calls = poll.calls
       /\ IF QuoteRead
          THEN LET r == call["main"].resps[Len(call["main"].resps)]
               IN poll'.quotes = Append(poll.quotes, PollerNumber(r.body.list[1].px))
          ELSE poll'.quotes = poll.quotes
  /\ poll'.quotes # poll.quotes => poll.pc = "calling"

C26_OneEventPerLoad ==
  (chart.loads > 0 /\ ~chart.is_loading /\ fetch.pc = "idle") =>
    Len(emitted) = 1

\* the records of the examined page are appended exactly when the Request
\* Client's outcome for the call was ok and the response carries records
C27_Step ==
  PageExamined =>
    LET cl == call["main"]
        carries == /\ cl.resps # <<>>
                   /\ cl.resps[Len(cl.resps)].body.has_list
                   /\ cl.resps[Len(cl.resps)].body.list # <<>>
    IN fetch'.all_data # fetch.all_data <=> (CallOk(cl) /\ carries)

\* C27: the fetcher appends the records of a page if and only if the
\* Request Client classified the call ok (HTTP 200 and code 0, an absent
\* code counting as 0): never from a non-200 response, and never dropping
\* the records of an ok response.
C27_ClassificationAgrees == [][C27_Step]_vars

\* C28: the loading flag is true from the acceptance of a load request
\* until that load has finished all its work: while load_chart_data is
\* between its acceptance and its return, is_loading is TRUE.  The handler
\* of chart.py:261-265 clears the flag and the load goes on to lines
\* 267-341.
LoadInProgress == fetch.caller = "load" /\ fetch.pc # "idle"

C28_LoadingUntilDone == LoadInProgress => chart.is_loading

\* the state the handler of line 261 leaves: flag cleared, one empty frame
\* emitted, the rest of load_chart_data still to run
C28_FlagClearedEarly ==
  /\ fetch.pc = "handled"
  /\ ~chart.is_loading
  /\ Len(emitted) = 1
\* the timer runs only with an instrument selected and on a tick period
C29_TimerOnlyOnTick ==
  chart.timer_active =>
    /\ chart.current_stock_code # NoStock
    /\ chart.current_period = "1T"

\* a tick that finds no instrument or a non-tick period
TickOffPeriod ==
  /\ PollTick
  /\ chart.current_stock_code = NoStock \/ chart.current_period # "1T"

\* an accepted load leaves the timer stopped when it starts; the timer
\* starts only in the step that ends a load of the tick period; a tick
\* off a tick period stops the timer and starts no call
C29_Step ==
  /\ chart'.loads = chart.loads + 1 =>
       ~chart'.timer_active /\ chart'.current_stock_code # NoStock
  /\ (~chart.timer_active /\ chart'.timer_active) =>
       /\ fetch.caller = "load" /\ fetch.pc \in {"returned", "handled"}
       /\ fetch'.pc = "idle"
       /\ chart.current_period = "1T"
  /\ TickOffPeriod =>
       /\ ~chart'.timer_active
       /\ UNCHANGED <<access_token, issued, call, fetch, emitted, poll, cred>>

\* C29: after any sequence of load requests, poll ticks and stop_updates
\* the polling timer is active only if an instrument is selected and the
\* current period is tick-granularity: every accepted load stops the timer
\* first and restarts it only at the end of a tick-period load, and a tick
\* that finds no instrument or a non-tick period stops the timer without a
\* network call.
C29_TimerDiscipline == []C29_TimerOnlyOnTick /\ [][C29_Step]_vars

\* a bar-period load accepted while the timer ran has ended with the timer
\* stopped
C29_Witness ==
  /\ chart.loads = MaxLoads /\ ~chart.is_loading /\ fetch.pc = "idle"
  /\ chart.current_period = "D" /\ chart.chart_data # <<>>
  /\ ~chart.timer_active

\* a tick-period load has ended and restarted the timer
C29_Restarted ==
  /\ chart.loads = MaxLoads /\ ~chart.is_loading /\ fetch.pc = "idle"
  /\ chart.current_period = "1T" /\ chart.chart_data # <<>>
  /\ chart.timer_active

\* C30: every operation request of a session is sent to the host of that
\* session's trading mode, the host its token is issued by and revoked at
\* (base_url): in paper mode no operation request goes to the live host.
C30_ModeHost ==
  \A c \in Callers :
    \A i \in 1..Len(call[c].sent) :
      /\ call[c].sent[i].host = BaseUrl(cred.is_real)
      /\ ~cred.is_real => call[c].sent[i].host # LiveHost

====
